---- MODULE Spec2Model ----
(***************************************************************************)
(* Model of mainbot.py: an EMA(50)/EMA(200) crossover bot that polls a     *)
(* trading terminal (MetaTrader5) in a sleep-paced loop, places at most    *)
(* one order per cycle and moves stop-losses to break-even.                *)
(*                                                                         *)
(* Python None is the string "None" for scalars and a record with          *)
(* none |-> TRUE for the terminal's list results.  Prices, profits and     *)
(* volumes are integers; every percentage is a numerator over PCT_SCALE,   *)
(* so the float expressions of the source are evaluated as exact           *)
(* rationals.  The EMAs are exact rationals too: numerators are unbounded  *)
(* naturals held as little-endian digit sequences.                         *)
(***************************************************************************)
EXTENDS Integers, Sequences, FiniteSets, TLC

VARIABLES
    pc,              \* position of the program (see the actions)
    hasConfig,       \* HAS_CONFIG
    initCalls,       \* number of mt5.initialize calls made
    acquired,        \* number of mt5.initialize calls that returned True
    shutdownCalls,   \* number of mt5.shutdown calls made
    lateCalls,       \* terminal calls made after mt5.shutdown
    exitCause,       \* why main was left: "none", "return", "KeyboardInterrupt", "Exception"
    cycles,          \* iterations of main's while loop started so far
    slept,           \* seconds slept since the current iteration started
    exc,             \* exception raised by the current iteration, "None" if none
    now,             \* local time read by is_within_trading_hours, <<h, m, s, us>>
    within,          \* result of is_within_trading_hours in this iteration
    account_balance, \* account_info.balance, -1 before the read
    newsClear,       \* result of check_major_news_events in this iteration
    rates_df,        \* result of get_rates in this iteration
    signal,          \* result of get_signals in this iteration
    posCount,        \* len(positions) read by max_open_positions, -1 before the read
    sent,            \* requests passed to mt5.order_send in this iteration
    positions,       \* result of positions_get in the break-even pass
    idx,             \* index of the next position of the break-even pass
    passRan,         \* the break-even pass re-read and handled every position
    closes,          \* closing prices given to the signal calculator
    k,               \* length of the last prefix of closes evaluated
    sigs             \* sigs[i] = get_signals on the prefix of length i + 1

progVars == <<pc, hasConfig, initCalls, acquired, shutdownCalls, lateCalls, exitCause,
              cycles, slept, exc, now, within, account_balance, newsClear, rates_df,
              signal, posCount, sent, positions, idx, passRan>>
calcVars == <<closes, k, sigs>>
vars == <<progVars, calcVars>>

(***************************************************************************)
(* Bounds of the model.                                                    *)
(***************************************************************************)
MaxCycles == 2   \* iterations of the loop explored
MaxLen == 5      \* length of the series given to the signal calculator
MaxClose == 5    \* closing prices range over 1..MaxClose

(***************************************************************************)
(* Configuration and literals of the source.                               *)
(***************************************************************************)
MAX_POSITIONS == 3
RISK_PERCENT == 1
PCT_SCALE == 100
STOP_LOSS_PERCENT == 2
TAKE_PROFIT_PERCENT == 4
BREAK_EVEN_PERCENT == 2
FAST_WINDOW == 50
SLOW_WINDOW == 200
NUMBER_OF_DATA == 200
START_HOUR == 8
END_HOUR == 12
POLL_SECONDS == 14400
BACKOFF_SECONDS == 60

None == "None"

(***************************************************************************)
(* Unbounded naturals: little-endian sequences of digits in base Base,     *)
(* without leading zeros (0 is the empty sequence).                        *)
(***************************************************************************)
Base == 10000

RECURSIVE BigOf(_)
BigOf(n) == IF n = 0 THEN <<>> ELSE <<n % Base>> \o BigOf(n \div Base)

RECURSIVE BigMulCarry(_, _, _)
BigMulCarry(x, m, carry) ==
    IF x = <<>>
    THEN BigOf(carry)
    ELSE LET t == Head(x) * m + carry
         IN  <<t % Base>> \o BigMulCarry(Tail(x), m, t \div Base)

\* x * m for a small natural m
BigMul(x, m) == IF m = 0 THEN <<>> ELSE BigMulCarry(x, m, 0)

RECURSIVE BigAddCarry(_, _, _)
BigAddCarry(x, y, carry) ==
    IF x = <<>> /\ y = <<>>
    THEN BigOf(carry)
    ELSE LET a == IF x = <<>> THEN 0 ELSE Head(x)
             b == IF y = <<>> THEN 0 ELSE Head(y)
             t == a + b + carry
         IN  <<t % Base>> \o BigAddCarry(IF x = <<>> THEN <<>> ELSE Tail(x),
                                         IF y = <<>> THEN <<>> ELSE Tail(y),
                                         t \div Base)

BigAdd(x, y) == BigAddCarry(x, y, 0)

BigLess(x, y) ==
    \/ Len(x) < Len(y)
    \/ /\ Len(x) = Len(y)
       /\ \E i \in 1..Len(x) :
            /\ x[i] < y[i]
            /\ \A j \in (i + 1)..Len(x) : x[j] = y[j]

RECURSIVE BigScale(_, _, _)
\* x * b^e
BigScale(x, b, e) == IF e = 0 THEN x ELSE BigScale(BigMul(x, b), b, e - 1)

(***************************************************************************)
(* calculate_ema: ewm(span = window, adjust = False).mean().               *)
(* y[1] = x[1]; y[t] = (1 - a) * y[t-1] + a * x[t] with a = 2/(window+1), *)
(* that is y[t] = (2 * x[t] + (window - 1) * y[t-1]) / (window + 1).       *)
(* EmaNum(x, window, t) is the numerator of y[t] over (window + 1)^(t-1).  *)
(***************************************************************************)
RECURSIVE EmaPair(_, _, _)
\* [num, pow]: y[t] = num / pow with pow = (window + 1)^(t-1)
EmaPair(x, window, t) ==
    IF t = 1
    THEN [num |-> BigOf(x[1]), pow |-> BigOf(1)]
    ELSE LET p == EmaPair(x, window, t - 1)
         IN  [num |-> BigAdd(BigMul(p.pow, 2 * x[t]), BigMul(p.num, window - 1)),
              pow |-> BigMul(p.pow, window + 1)]

EmaNum(x, window, t) == EmaPair(x, window, t).num

calculate_ema(x, window) == [t \in 1..Len(x) |-> EmaNum(x, window, t)]

\* ema_50[t] < ema_200[t], both brought to the denominator (51 * 201)^(t-1)
EmaLess(fast, slow, t) ==
    BigLess(BigScale(fast[t], SLOW_WINDOW + 1, t - 1),
            BigScale(slow[t], FAST_WINDOW + 1, t - 1))

\* ema_50[t] > ema_200[t]
EmaGreater(fast, slow, t) ==
    BigLess(BigScale(slow[t], FAST_WINDOW + 1, t - 1),
            BigScale(fast[t], SLOW_WINDOW + 1, t - 1))

\* A get_signals that reports the side of the averages, not the crossing.
get_signals_NoCross(x) ==
    LET fast == calculate_ema(x, FAST_WINDOW)
        slow == calculate_ema(x, SLOW_WINDOW)
        n == Len(x)
    IN  IF n < 2 THEN "IndexError"
        ELSE IF EmaGreater(fast, slow, n) THEN "buy"
        ELSE IF EmaLess(fast, slow, n) THEN "sell"
        ELSE None

\* get_signals on the closes x; iloc[-2] of a one-row frame raises IndexError.
get_signals(x) ==
    LET fast == calculate_ema(x, FAST_WINDOW)
        slow == calculate_ema(x, SLOW_WINDOW)
        n == Len(x)
    IN  IF n < 2 THEN "IndexError"
        ELSE IF EmaGreater(fast, slow, n) /\ ~EmaGreater(fast, slow, n - 1) THEN "buy"
        ELSE IF EmaLess(fast, slow, n) /\ ~EmaLess(fast, slow, n - 1) THEN "sell"
        ELSE None

(***************************************************************************)
(* Pure helpers of the order path.                                         *)
(***************************************************************************)
\* calculate_position_size, in 1/PCT_SCALE lots: balance * (risk_percent / 100)
calculate_position_size(balance) == balance * RISK_PERCENT

\* A set_stop_loss_and_take_profit whose sell branch repeats the buy branch.
set_stop_loss_and_take_profit_BuyOnly(entry_price, direction) ==
    [sl |-> entry_price * (PCT_SCALE - STOP_LOSS_PERCENT),
     tp |-> entry_price * (PCT_SCALE + TAKE_PROFIT_PERCENT)]

\* set_stop_loss_and_take_profit, in 1/PCT_SCALE price units
set_stop_loss_and_take_profit(entry_price, direction) ==
    IF direction = "buy"
    THEN [sl |-> entry_price * (PCT_SCALE - STOP_LOSS_PERCENT),
          tp |-> entry_price * (PCT_SCALE + TAKE_PROFIT_PERCENT)]
    ELSE [sl |-> entry_price * (PCT_SCALE + STOP_LOSS_PERCENT),
          tp |-> entry_price * (PCT_SCALE - TAKE_PROFIT_PERCENT)]

\* A max_open_positions that admits a trade at the cap.
max_open_positions_Inclusive(n) == n <= MAX_POSITIONS

\* max_open_positions: len(positions) < max_trades
max_open_positions(n) == n < MAX_POSITIONS

\* datetime.time ordering: lexicographic on (hour, minute, second, microsecond)
TimeLE(a, b) ==
    \/ a = b
    \/ \E i \in 1..4 : a[i] < b[i] /\ \A j \in 1..(i - 1) : a[j] = b[j]

\* An is_within_trading_hours that excludes the end of the window.
is_within_trading_hours_ExclusiveEnd(t) ==
    /\ TimeLE(<<START_HOUR, 0, 0, 0>>, t)
    /\ TimeLE(t, <<END_HOUR, 0, 0, 0>>)
    /\ t # <<END_HOUR, 0, 0, 0>>

\* is_within_trading_hours: start <= now <= end
is_within_trading_hours(t) ==
    /\ TimeLE(<<START_HOUR, 0, 0, 0>>, t)
    /\ TimeLE(t, <<END_HOUR, 0, 0, 0>>)

\* check_major_news_events: a stub that always reports no major news
check_major_news_events == TRUE

\* mt5.copy_rates_from_pos(symbol, timeframe, 0, count): the latest count bars
copy_rates_from_pos(hist, count) ==
    IF Len(hist) <= count THEN hist ELSE SubSeq(hist, Len(hist) - count + 1, Len(hist))

NoRates == [none |-> TRUE, bars |-> <<>>]

\* get_rates: None when the terminal returns None or no bar, else the frame
get_rates(rates) ==
    IF rates.none \/ Len(rates.bars) = 0 THEN NoRates
    ELSE [none |-> FALSE, bars |-> rates.bars]

\* An adjust_stop_loss test that needs the profit to exceed the threshold.
break_even_due_Strict(position) ==
    position.profit * PCT_SCALE > position.price_open * BREAK_EVEN_PERCENT * position.volume

\* adjust_stop_loss's test: profit / volume >= price_open * 0.02, volume > 0
break_even_due(position) ==
    position.profit * PCT_SCALE >= position.price_open * BREAK_EVEN_PERCENT * position.volume

Exceptions == {"IndexError", "TypeError", "AttributeError"}

\* A loop handler that catches TypeError only.
LoopHandler_TypeErrorOnly(e) == IF e = "TypeError" THEN "except" ELSE "critical"

\* main's "except Exception": where an exception raised in the loop body lands
LoopHandler(e) == IF e \in Exceptions THEN "except" ELSE "critical"

\* A main that enters the loop whatever initialize_mt5 returned.
MainAfterInit_NoReturn(ok) == "top"

\* main: "if not initialize_mt5(): return"
MainAfterInit(ok) == IF ok THEN "top" ELSE "finally"

(***************************************************************************)
(* What the terminal can answer.                                           *)
(***************************************************************************)
TimesOfDay ==
    {<<h, m, s, us>> : h \in {0, 7, 8, 11, 12, 13, 23}, m \in {0, 59},
                       s \in {0, 59}, us \in {0, 1, 999999}}

Balances == {1000, 2500}

RECURSIVE SeqsOfLen(_, _)
SeqsOfLen(S, n) ==
    IF n = 0 THEN {<<>>}
    ELSE {Append(s, e) : s \in SeqsOfLen(S, n - 1), e \in S}

\* bar histories (closing prices) of the instrument
Histories == UNION {SeqsOfLen({1, 2}, n) : n \in 0..3}

RatesAnswers == {NoRates} \cup {[none |-> FALSE, bars |-> h] : h \in Histories}

NoTick == [none |-> TRUE, bid |-> 0, ask |-> 0]

\* mt5.symbol_info_tick: None, or a tick with bid <= ask
Ticks == {[none |-> FALSE, bid |-> 100, ask |-> 101], [none |-> FALSE, bid |-> 7, ask |-> 7]}

\* one open position with every combination of the fields adjust_stop_loss reads
AnyPosition ==
    {[ticket |-> 1, volume |-> v, price_open |-> p, profit |-> r] :
        v \in {1, 2}, p \in {50, 100}, r \in {-3, 0, 1, 2, 3, 4, 5}}

Pos(t, v, p, r) == [ticket |-> t, volume |-> v, price_open |-> p, profit |-> r]

\* open positions of the instrument, as positions_get lists them
PositionLists ==
    {<<>>} \cup {<<p>> : p \in AnyPosition} \cup
    {<<Pos(1, 1, 100, 2), Pos(2, 2, 100, 3)>>,
     <<Pos(1, 2, 100, 3), Pos(2, 1, 50, 1)>>,
     <<Pos(1, 1, 100, 1), Pos(2, 1, 50, -3), Pos(3, 2, 50, 2)>>,
     <<Pos(1, 1, 50, 5), Pos(2, 1, 100, 2), Pos(3, 1, 100, 0), Pos(4, 2, 50, 1)>>}

NoPositions == [none |-> TRUE, list |-> <<>>]

PositionsAnswers == {NoPositions} \cup {[none |-> FALSE, list |-> l] : l \in PositionLists}

\* mt5.order_send: None, or a result with a retcode
OrderResults == {None, "TRADE_RETCODE_DONE", "TRADE_RETCODE_REJECT"}

LoopPcs == {"top", "hours", "account", "news", "rates", "signals", "cap", "trade",
            "positions", "adjust", "sleep", "except"}

(***************************************************************************)
(* The program: the __main__ block, main and the functions it calls.       *)
(***************************************************************************)
InitProg ==
    /\ pc = "start"
    /\ hasConfig \in BOOLEAN
    /\ initCalls = 0
    /\ acquired = 0
    /\ shutdownCalls = 0
    /\ lateCalls = 0
    /\ exitCause = "none"
    /\ cycles = 0
    /\ slept = 0
    /\ exc = None
    /\ now = <<0, 0, 0, 0>>
    /\ within = FALSE
    /\ account_balance = -1
    /\ newsClear = FALSE
    /\ rates_df = NoRates
    /\ signal = None
    /\ posCount = -1
    /\ sent = <<>>
    /\ positions = NoPositions
    /\ idx = 0
    /\ passRan = FALSE

Init ==
    /\ InitProg
    /\ closes = <<>>
    /\ k = 0
    /\ sigs = <<>>

connVars == <<hasConfig, initCalls, acquired, shutdownCalls>>
tradeVars == <<account_balance, newsClear, rates_df, signal, posCount>>
passVars == <<positions, idx, passRan>>

\* a terminal call counts as late when mt5.shutdown has already been called
TerminalCalls(n) == lateCalls' = lateCalls + (IF shutdownCalls > 0 THEN n ELSE 0)

\* an exception e raised in the loop body
Raise(e) == exc' = e /\ pc' = LoopHandler(e)

\* initialize_mt5, given what the two mt5.initialize calls answer
initialize_mt5(first, second, cfg) ==
    IF first THEN [calls |-> 1, acquired |-> 1, result |-> "True"]
    ELSE IF ~cfg THEN [calls |-> 1, acquired |-> 0, result |-> "False"]
    ELSE IF second = "raise" THEN [calls |-> 1, acquired |-> 0, result |-> "raise"]
    ELSE IF second = "True" THEN [calls |-> 2, acquired |-> 1, result |-> "True"]
    ELSE [calls |-> 2, acquired |-> 0, result |-> "False"]

\* main, up to the loop: initialize_mt5 and the return on failure
Initialize ==
    /\ pc = "start"
    /\ \E first \in BOOLEAN, second \in {"True", "False", "raise"} :
         LET r == initialize_mt5(first, second, hasConfig)
         IN  /\ initCalls' = initCalls + r.calls
             /\ acquired' = acquired + r.acquired
             /\ lateCalls' = lateCalls + (IF shutdownCalls > 0 THEN r.calls ELSE 0)
             /\ pc' = IF r.result = "raise" THEN "critical"
                      ELSE MainAfterInit(r.result = "True")
             /\ exitCause' = IF r.result = "raise" THEN "Exception"
                             ELSE IF MainAfterInit(r.result = "True") = "finally"
                                  THEN "return" ELSE exitCause
    /\ UNCHANGED <<hasConfig, shutdownCalls, cycles, slept, exc, now, within,
                   tradeVars, sent, passVars, calcVars>>

\* top of "while True": a new iteration; is_within_trading_hours reads the clock
CheckHours ==
    /\ pc = "top"
    /\ cycles < MaxCycles
    /\ cycles' = cycles + 1
    /\ \E t \in TimesOfDay :
         /\ now' = t
         /\ within' = is_within_trading_hours(t)
    /\ slept' = 0
    /\ exc' = None
    /\ account_balance' = -1
    /\ newsClear' = FALSE
    /\ rates_df' = NoRates
    /\ signal' = None
    /\ posCount' = -1
    /\ sent' = <<>>
    /\ positions' = NoPositions
    /\ idx' = 0
    /\ passRan' = FALSE
    /\ pc' = "hours"
    /\ UNCHANGED <<connVars, lateCalls, exitCause, calcVars>>

\* "if is_within_trading_hours():" with no else branch before the sleep
BranchHours ==
    /\ pc = "hours"
    /\ now' = <<0, 0, 0, 0>>
    /\ pc' = IF within THEN "account" ELSE "sleep"
    /\ UNCHANGED <<connVars, lateCalls, exitCause, cycles, slept, exc, within,
                   tradeVars, sent, passVars, calcVars>>

\* mt5.account_info(); on None, log and "continue"
AccountInfo ==
    /\ pc = "account"
    /\ TerminalCalls(1)
    /\ \E info \in {-1} \cup Balances :
         IF info = -1
         THEN /\ pc' = "top"
              /\ UNCHANGED account_balance
         ELSE /\ account_balance' = info
              /\ pc' = "news"
    /\ UNCHANGED <<connVars, exitCause, cycles, slept, exc, now, within,
                   newsClear, rates_df, signal, posCount, sent, passVars, calcVars>>

\* "if check_major_news_events():"
News ==
    /\ pc = "news"
    /\ newsClear' = check_major_news_events
    /\ pc' = IF newsClear' THEN "rates" ELSE "positions"
    /\ UNCHANGED <<connVars, lateCalls, exitCause, cycles, slept, exc, now, within,
                   account_balance, rates_df, signal, posCount, sent, passVars, calcVars>>

\* rates_df = get_rates(SYMBOL); "if rates_df is not None:"
GetRates ==
    /\ pc = "rates"
    /\ TerminalCalls(1)
    /\ \E a \in RatesAnswers :
         rates_df' = get_rates(IF a.none THEN a
                               ELSE [none |-> FALSE,
                                     bars |-> copy_rates_from_pos(a.bars, NUMBER_OF_DATA)])
    /\ pc' = IF rates_df'.none THEN "positions" ELSE "signals"
    /\ UNCHANGED <<connVars, exitCause, cycles, slept, exc, now, within,
                   account_balance, newsClear, signal, posCount, sent, passVars, calcVars>>

\* signal = get_signals(rates_df); "if signal and ..."
GetSignals ==
    /\ pc = "signals"
    /\ LET r == get_signals(rates_df.bars)
       IN  IF r \in Exceptions
           THEN Raise(r) /\ UNCHANGED signal
           ELSE /\ signal' = r
                /\ pc' = IF r # None THEN "cap" ELSE "positions"
                /\ UNCHANGED exc
    /\ UNCHANGED <<connVars, lateCalls, exitCause, cycles, slept, now, within,
                   account_balance, newsClear, rates_df, posCount, sent, passVars, calcVars>>

\* "... and max_open_positions([SYMBOL]):"; len(None) raises TypeError
MaxOpenPositions ==
    /\ pc = "cap"
    /\ TerminalCalls(1)
    /\ \E a \in PositionsAnswers :
         IF a.none
         THEN Raise("TypeError") /\ UNCHANGED posCount
         ELSE /\ posCount' = Len(a.list)
              /\ pc' = IF max_open_positions(Len(a.list)) THEN "trade" ELSE "positions"
              /\ UNCHANGED exc
    /\ UNCHANGED <<connVars, exitCause, cycles, slept, now, within,
                   account_balance, newsClear, rates_df, signal, sent, passVars, calcVars>>

\* the request trade() builds from the tick
TradeRequest(direction, tick, balance) ==
    LET price == IF direction = "buy" THEN tick.ask ELSE tick.bid
        levels == set_stop_loss_and_take_profit(price, direction)
    IN  [action |-> "TRADE_ACTION_DEAL",
         volume |-> calculate_position_size(balance),
         type |-> direction,
         price |-> price,
         sl |-> levels.sl,
         tp |-> levels.tp]

\* trade(SYMBOL, signal, account_balance): every exception is caught inside
Trade ==
    /\ pc = "trade"
    /\ \E tick \in {NoTick} \cup Ticks, result \in OrderResults :
         IF tick.none
         THEN /\ TerminalCalls(1)
              /\ UNCHANGED sent
         ELSE /\ TerminalCalls(2)
              /\ sent' = Append(sent, TradeRequest(signal, tick, account_balance))
    /\ pc' = "positions"
    /\ UNCHANGED <<connVars, exitCause, cycles, slept, exc, now, within,
                   tradeVars, passVars, calcVars>>

\* positions = mt5.positions_get(symbol=SYMBOL); "for position in positions:"
PositionsGet ==
    /\ pc = "positions"
    /\ TerminalCalls(1)
    /\ \E a \in PositionsAnswers :
         /\ positions' = a
         /\ IF a.none
            THEN Raise("TypeError") /\ UNCHANGED <<idx, passRan>>
            ELSE /\ idx' = 1
                 /\ passRan' = (Len(a.list) = 0)
                 /\ pc' = IF Len(a.list) = 0 THEN "sleep" ELSE "adjust"
                 /\ UNCHANGED exc
    /\ UNCHANGED <<connVars, exitCause, cycles, slept, now, within,
                   tradeVars, sent, calcVars>>

\* adjust_stop_loss(position) for the next position of the list
AdjustStopLoss ==
    /\ pc = "adjust"
    /\ LET position == positions.list[idx]
       IN  IF break_even_due(position)
           THEN /\ TerminalCalls(1)
                /\ sent' = Append(sent, [action |-> "TRADE_ACTION_SLTP",
                                         position |-> position.ticket,
                                         sl |-> position.price_open])
                /\ \E result \in OrderResults :
                     IF result = None
                     THEN Raise("AttributeError") /\ UNCHANGED passRan
                     ELSE /\ pc' = IF idx = Len(positions.list) THEN "sleep" ELSE "adjust"
                          /\ passRan' = (idx = Len(positions.list))
                          /\ UNCHANGED exc
           ELSE /\ pc' = IF idx = Len(positions.list) THEN "sleep" ELSE "adjust"
                /\ passRan' = (idx = Len(positions.list))
                /\ UNCHANGED <<lateCalls, sent, exc>>
    /\ idx' = idx + 1
    /\ UNCHANGED <<connVars, exitCause, cycles, slept, now, within,
                   tradeVars, positions, calcVars>>

\* time.sleep(60 * 60 * 4)
Sleep ==
    /\ pc = "sleep"
    /\ slept' = slept + POLL_SECONDS
    /\ pc' = "top"
    /\ UNCHANGED <<connVars, lateCalls, exitCause, cycles, exc, now, within,
                   tradeVars, sent, passVars, calcVars>>

\* "except Exception as e:" of the loop: log, time.sleep(60)
HandleException ==
    /\ pc = "except"
    /\ slept' = slept + BACKOFF_SECONDS
    /\ pc' = "top"
    /\ UNCHANGED <<connVars, lateCalls, exitCause, cycles, exc, now, within,
                   tradeVars, sent, passVars, calcVars>>

\* KeyboardInterrupt while main runs: "except KeyboardInterrupt:" of __main__
Interrupt ==
    /\ pc \in {"start"} \cup LoopPcs
    /\ pc' = "finally"
    /\ exitCause' = "KeyboardInterrupt"
    /\ UNCHANGED <<connVars, lateCalls, cycles, slept, exc, now, within,
                   tradeVars, sent, passVars, calcVars>>

\* "except Exception as e:" of __main__: an exception that left main
Critical ==
    /\ pc = "critical"
    /\ pc' = "finally"
    /\ exitCause' = "Exception"
    /\ UNCHANGED <<connVars, lateCalls, cycles, slept, exc, now, within,
                   tradeVars, sent, passVars, calcVars>>

\* "finally: mt5.shutdown()"
Finally ==
    /\ pc = "finally"
    /\ shutdownCalls' = shutdownCalls + 1
    /\ pc' = "exit"
    /\ UNCHANGED <<hasConfig, initCalls, acquired, lateCalls, exitCause, cycles, slept,
                   exc, now, within, tradeVars, sent, passVars, calcVars>>

Next ==
    \/ Initialize
    \/ CheckHours
    \/ BranchHours
    \/ AccountInfo
    \/ News
    \/ GetRates
    \/ GetSignals
    \/ MaxOpenPositions
    \/ Trade
    \/ PositionsGet
    \/ AdjustStopLoss
    \/ Sleep
    \/ HandleException
    \/ Interrupt
    \/ Critical
    \/ Finally

Spec == Init /\ [][Next]_vars

(***************************************************************************)
(* The signal calculator on every prefix of a series.                      *)
(***************************************************************************)
InitSignal ==
    /\ InitProg
    /\ hasConfig = FALSE
    /\ closes \in SeqsOfLen(1..MaxClose, MaxLen)
    /\ k = 1
    /\ sigs = <<>>

EvalPrefix ==
    /\ k < Len(closes)
    /\ k' = k + 1
    /\ sigs' = Append(sigs, get_signals(SubSeq(closes, 1, k + 1)))
    /\ UNCHANGED <<closes, progVars>>

NextSignal == EvalPrefix

SpecSignal == InitSignal /\ [][NextSignal]_vars

(***************************************************************************)
(* Properties.                                                             *)
(***************************************************************************)
\* the orders (not the stop-loss modifications) submitted in this iteration
Deals == {i \in 1..Len(sent) : sent[i].action = "TRADE_ACTION_DEAL"}

\* the stop-loss modifications sent in this iteration for a ticket
Sltp(ticket) ==
    {i \in 1..Len(sent) : sent[i].action = "TRADE_ACTION_SLTP" /\ sent[i].position = ticket}

\* the positions of the break-even pass that adjust_stop_loss has been applied to
Handled == IF positions.none THEN {} ELSE 1..(idx - 1)

\* C1: in every cycle at most one order is submitted, and only if in that cycle
\* the time was inside the trading window, the news check was clear, the bar
\* fetch succeeded, the signal is buy or sell and the number of open positions
\* read is strictly below MAX_POSITIONS.
C1_OneGuardedOrderPerCycle ==
    /\ Cardinality(Deals) <= 1
    /\ Deals # {} =>
         /\ within
         /\ newsClear
         /\ ~rates_df.none
         /\ signal \in {"buy", "sell"}
         /\ posCount >= 0
         /\ posCount < 3
         /\ \A i \in Deals : sent[i].type = signal

C1_Witness ==
    /\ Deals # {}
    /\ posCount = 2
    /\ signal = "sell"

\* C2: in each iteration of the loop, whatever the trading-window check and the
\* account-info read gave, the positions are re-read and adjust_stop_loss is
\* applied to each: when an iteration is over, the break-even pass has run.
C2_BreakEvenPassEveryCycle ==
    (pc = "top" /\ cycles > 0) => passRan

\* C3: an exception raised in the loop body is caught by the loop's handler,
\* which sleeps 60 seconds and goes back to the top of the loop; once the loop
\* has started, main is left only by a keyboard interrupt.
C3_ExceptionsCaughtAndRetried ==
    /\ [][(exc = None /\ exc' # None) => pc' = "except"]_vars
    /\ [][pc = "except" =>
            \/ pc' = "top" /\ slept' = 60 /\ exc' = exc
            \/ pc' = "finally" /\ exitCause' = "KeyboardInterrupt"]_vars
    /\ []((cycles > 0 /\ pc \in {"critical", "finally", "exit"})
            => exitCause = "KeyboardInterrupt")

C3_Witness ==
    /\ pc = "top"
    /\ exc = "AttributeError"
    /\ slept = 60
    /\ cycles = 1

\* C4: the connection is acquired at most once; after a successful
\* initialize_mt5 every termination has called mt5.shutdown exactly once; no
\* terminal call follows the shutdown; and when the startup connection fails
\* no loop cycle runs.
C4_ConnectionReleasedOnce ==
    /\ acquired <= 1
    /\ shutdownCalls <= 1
    /\ pc = "exit" => shutdownCalls = 1
    /\ lateCalls = 0
    /\ acquired = 0 => (cycles = 0 /\ sent = <<>> /\ rates_df.none /\ positions.none)

C4_Witness ==
    /\ pc = "exit"
    /\ acquired = 1
    /\ initCalls = 2
    /\ cycles = 2
    /\ exitCause = "KeyboardInterrupt"

\* C5: whenever main calls get_signals on the result of get_rates, that result
\* holds at least 201 bars.
C5_CalculatorGetsAtLeast201Bars ==
    pc = "signals" => Len(rates_df.bars) >= 201

StrictlyIncreasing(x, n) == \A i \in 1..(n - 1) : x[i] < x[i + 1]
StrictlyDecreasing(x, n) == \A i \in 1..(n - 1) : x[i] > x[i + 1]

\* bar n is the first with fast > slow after a bar with fast <= slow
FirstCrossUp(n) ==
    LET fast == calculate_ema(closes, 50)
        slow == calculate_ema(closes, 200)
        up(m) == EmaGreater(fast, slow, m) /\ ~EmaGreater(fast, slow, m - 1)
    IN  up(n) /\ \A m \in 2..(n - 1) : ~up(m)

\* bar n is the first with fast < slow after a bar with fast >= slow
FirstCrossDown(n) ==
    LET fast == calculate_ema(closes, 50)
        slow == calculate_ema(closes, 200)
        down(m) == EmaLess(fast, slow, m) /\ ~EmaLess(fast, slow, m - 1)
    IN  down(n) /\ \A m \in 2..(n - 1) : ~down(m)

\* C6: on a strictly increasing series get_signals returns buy at exactly one
\* prefix of length >= 2, the first whose last bar has fast > slow and whose
\* previous bar has fast <= slow, and None at every other prefix; on a strictly
\* decreasing series the same holds with sell.
C6_SingleCrossoverOnMonotoneSeries ==
    /\ (k >= 2 /\ StrictlyIncreasing(closes, k)) =>
         \E n \in 2..k :
            /\ FirstCrossUp(n)
            /\ sigs[n - 1] = "buy"
            /\ \A m \in (2..k) \ {n} : sigs[m - 1] = None
    /\ (k >= 2 /\ StrictlyDecreasing(closes, k)) =>
         \E n \in 2..k :
            /\ FirstCrossDown(n)
            /\ sigs[n - 1] = "sell"
            /\ \A m \in (2..k) \ {n} : sigs[m - 1] = None

C6_Witness ==
    /\ k = Len(closes)
    /\ k >= 3
    /\ StrictlyIncreasing(closes, k)
    /\ sigs[1] = "buy"
    /\ sigs[k - 1] = None

\* C7: adjust_stop_loss sends a stop-loss modification for a position, with the
\* new stop-loss equal to the entry price, exactly when profit / volume is at
\* least 2% of the entry price; no modification is sent for any other position.
C7_BreakEvenExactlyAtTwoPercent ==
    /\ \A i \in Handled :
         LET p == positions.list[i]
         IN  IF p.profit * 100 >= 2 * p.price_open * p.volume
             THEN /\ Cardinality(Sltp(p.ticket)) = 1
                  /\ \A j \in Sltp(p.ticket) : sent[j].sl = p.price_open
             ELSE Sltp(p.ticket) = {}
    /\ \A j \in 1..Len(sent) :
         sent[j].action = "TRADE_ACTION_SLTP" =>
            \E i \in Handled : positions.list[i].ticket = sent[j].position

C7_Witness ==
    /\ ~positions.none
    /\ Len(positions.list) = 2
    /\ idx = 3
    /\ positions.list[1].profit * 100 = 2 * positions.list[1].price_open * positions.list[1].volume
    /\ Sltp(positions.list[1].ticket) # {}
    /\ positions.list[2].profit > 0
    /\ Sltp(positions.list[2].ticket) = {}

C9_WindowInclusiveAtBothEnds ==
    pc = "hours" =>
        (within <=> \/ (8 <= now[1] /\ now[1] < 12)
                    \/ now = <<12, 0, 0, 0>>)

C9_Witness ==
    /\ pc = "hours"
    /\ now = <<12, 0, 0, 0>>
    /\ within

\* C10: between the starts of two consecutive iterations the program sleeps,
\* 4 hours after an iteration that raised nothing and 60 seconds after one
\* that raised.
C10_EveryIterationFollowedBySleep ==
    (pc = "top" /\ cycles > 0) =>
        slept = (IF exc # None THEN 60 ELSE 14400)

====
